---- MODULE Spec2Model ----
\* Model of src/src/main.rs: main binds the phrase and the width, wraps
\* standard output in a BufWriter, calls ferris_says::say on it, unwraps the
\* result and leaves scope (which drops the BufWriter).
\*
\* ferris_says::say is an external crate; only its call is in the source. It is
\* modelled at its interface: a client of the Write trait that hands bytes to
\* the writer and returns the writer's first error. What it renders (wrapping,
\* borders, figure) is not modelled: its code is not part of this repository.
\*
\* Bytes are counted, not spelled: buf, delivered, handed are byte counts.
\* Standard output is modelled at the std::io::Stdout handle: a write call is
\* accepted whole or rejected (short writes are not modelled).
EXTENDS Integers, Sequences, FiniteSets, TLC

\* ---------------------------------------------------------------- bounds
\* say issues between 1 and MaxSayWrites write_all calls.
MaxSayWrites == 3
\* each write_all call of the rendered block carries 1..MaxChunk bytes.
MaxChunk == 3

\* ------------------------------------------------------------- constants
\* capacity chosen by BufWriter::new (std's default buffer size).
DEFAULT_BUF_SIZE == 8192
\* let width = 100;
WIDTH == 100
\* exit status of a Rust process whose main thread panicked.
PANIC_EXIT == 101

VARIABLES
  pc,          \* position in main
  out,         \* the binding `out` (line 5), "" before it is bound
  width,       \* the binding `width` (line 6), 0 before it is bound
  cap,         \* capacity of the BufWriter, -1 before construction
  buf,         \* bytes held in the BufWriter's buffer
  tried,       \* leading bytes of buf already passed to a rejected write
  sink,        \* standard output: "open" accepts, "broken" rejects writes
  sinkWrites,  \* write calls issued on standard output
  delivered,   \* bytes accepted by standard output
  rejected,    \* some write on standard output was rejected
  retried,     \* bytes of a rejected write were passed to a later write
  result,      \* what say returned: "none", "Ok", "Err"
  sayCalls,    \* Write-trait calls say has made on the writer
  handed,      \* bytes say passed to the writer
  panicking,   \* main is unwinding from the panic of unwrap
  exitCode     \* process exit status, -1 while running

vars == <<pc, out, width, cap, buf, tried, sink, sinkWrites, delivered,
          rejected, retried, result, sayCalls, handed, panicking, exitCode>>

prog == <<pc, out, width, cap, result, sayCalls, handed, panicking, exitCode>>
wr   == <<buf, tried, sinkWrites, delivered, rejected, retried>>

\* ------------------------------------------------- writer / sink helpers
\* The writer-and-sink part of the state as a record, so that the std
\* operations can be written as functions of it.
W == [buf |-> buf, tried |-> tried, sinkWrites |-> sinkWrites,
      delivered |-> delivered, rejected |-> rejected, retried |-> retried,
      ok |-> TRUE]

\* One write call of n bytes on standard output, of which k were already
\* part of a rejected write.
StdoutWrite(w, n, k) ==
  IF sink = "open"
  THEN [w EXCEPT !.sinkWrites = @ + 1, !.delivered = @ + n,
                 !.retried = @ \/ (k > 0), !.ok = TRUE]
  ELSE [w EXCEPT !.sinkWrites = @ + 1, !.rejected = TRUE,
                 !.retried = @ \/ (k > 0), !.ok = FALSE]

\* BufWriter::flush_buf: write the buffer out; on error the bytes stay.
FlushBuf(w) ==
  IF w.buf = 0 THEN [w EXCEPT !.ok = TRUE]
  ELSE LET r == StdoutWrite(w, w.buf, w.tried)
       IN IF r.ok THEN [r EXCEPT !.buf = 0, !.tried = 0]
                  ELSE [r EXCEPT !.tried = w.buf]

\* BufWriter::write_all(n bytes): buffer when it fits, else flush first and
\* write chunks of at least the capacity straight through.
WriteAll(w, n) ==
  IF n < cap - w.buf THEN [w EXCEPT !.buf = @ + n, !.ok = TRUE]
  ELSE LET f == IF n > cap - w.buf THEN FlushBuf(w) ELSE [w EXCEPT !.ok = TRUE]
       IN IF ~f.ok THEN f
          ELSE IF n >= cap THEN StdoutWrite(f, n, 0)
          ELSE [f EXCEPT !.buf = @ + n, !.ok = TRUE]

\* BufWriter::flush: flush_buf, then the inner flush (nothing left to do at
\* the Stdout handle).
Flush(w) == FlushBuf(w)

SetW(r) ==
  /\ buf' = r.buf
  /\ tried' = r.tried
  /\ sinkWrites' = r.sinkWrites
  /\ delivered' = r.delivered
  /\ rejected' = r.rejected
  /\ retried' = r.retried

\* ------------------------------------------------------------------ Init
Init ==
  /\ pc = "line5"
  /\ out = ""
  /\ width = 0
  /\ cap = -1
  /\ buf = 0
  /\ tried = 0
  /\ sink = "open"
  /\ sinkWrites = 0
  /\ delivered = 0
  /\ rejected = FALSE
  /\ retried = FALSE
  /\ result = "none"
  /\ sayCalls = 0
  /\ handed = 0
  /\ panicking = FALSE
  /\ exitCode = -1

\* --------------------------------------------------------------- actions
\* let out = "Hello World!";
LetOut ==
  /\ pc = "line5"
  /\ out' = "Hello World!"
  /\ pc' = "line6"
  /\ UNCHANGED <<width, cap, wr, sink, result, sayCalls, handed, panicking, exitCode>>

\* let width = 100;
LetWidth ==
  /\ pc = "line6"
  /\ width' = WIDTH
  /\ pc' = "line8"
  /\ UNCHANGED <<out, cap, wr, sink, result, sayCalls, handed, panicking, exitCode>>

\* a writer that does not buffer: every write goes straight to the sink
BufWriterUnbuffered ==
  /\ pc = "line8"
  /\ cap' = 0
  /\ pc' = "say"
  /\ UNCHANGED <<out, width, wr, sink, result, sayCalls, handed, panicking, exitCode>>

\* let mut writer = BufWriter::new(stdout());
BufWriterNew ==
  /\ pc = "line8"
  /\ cap' = DEFAULT_BUF_SIZE
  /\ pc' = "say"
  /\ UNCHANGED <<out, width, wr, sink, result, sayCalls, handed, panicking, exitCode>>

\* The effect of one Write-trait call of say whose outcome is r: an error
\* is returned to main at once.
SayStep(r, n) ==
  /\ SetW(r)
  /\ sayCalls' = sayCalls + 1
  /\ handed' = handed + n
  /\ IF r.ok THEN /\ result' = result
                  /\ pc' = pc
             ELSE /\ result' = "Err"
                  /\ pc' = "unwrap"
  /\ UNCHANGED <<out, width, cap, sink, panicking, exitCode>>

\* say(out, width, &mut writer): one write_all of a piece of the rendered
\* block.
SayWrite ==
  /\ pc = "say"
  /\ sayCalls < MaxSayWrites
  /\ \E n \in 1..MaxChunk : SayStep(WriteAll(W, n), n)

\* say returns Ok(()) once it has written its block.
SayReturn ==
  /\ pc = "say"
  /\ sayCalls >= 1
  /\ result' = "Ok"
  /\ pc' = "unwrap"
  /\ UNCHANGED <<out, width, cap, wr, sink, sayCalls, handed, panicking, exitCode>>

\* A writer client that also flushes.
SayFlush ==
  /\ pc = "say"
  /\ sayCalls < MaxSayWrites
  /\ SayStep(Flush(W), 0)

\* A writer client that writes a piece no smaller than the buffer.
SayWriteLarge ==
  /\ pc = "say"
  /\ sayCalls < MaxSayWrites
  /\ SayStep(WriteAll(W, cap), cap)

\* .unwrap(): Err panics and main unwinds, Ok goes on to the end of main.
Unwrap ==
  /\ pc = "unwrap"
  /\ panicking' = (result = "Err")
  /\ pc' = "drop"
  /\ UNCHANGED <<out, width, cap, wr, sink, result, sayCalls, handed, exitCode>>

\* end of scope without running the destructor's flush
DropWriterForget ==
  /\ pc = "drop"
  /\ exitCode' = IF panicking THEN PANIC_EXIT ELSE 0
  /\ pc' = "exit"
  /\ UNCHANGED <<out, width, cap, wr, sink, result, sayCalls, handed, panicking>>

\* `}`: writer goes out of scope (on return and on unwinding alike);
\* BufWriter's drop calls flush_buf and discards its result; the process
\* then exits with 0, or with 101 after a panic.
DropWriter ==
  /\ pc = "drop"
  /\ SetW(FlushBuf(W))
  /\ exitCode' = IF panicking THEN PANIC_EXIT ELSE 0
  /\ pc' = "exit"
  /\ UNCHANGED <<out, width, cap, sink, result, sayCalls, handed, panicking>>

\* Environment: the reader of standard output goes away (before main's first
\* step when the process is started on a pipe that is already closed).
SinkBreaks ==
  /\ pc # "exit"
  /\ sink = "open"
  /\ sink' = "broken"
  /\ UNCHANGED <<prog, wr>>

Main ==
  \/ LetOut
  \/ LetWidth
  \/ BufWriterNew
  \/ SayWrite
  \/ SayReturn
  \/ Unwrap
  \/ DropWriter

Next == Main \/ SinkBreaks

Spec == Init /\ [][Next]_vars

\* The same program with say replaced by an arbitrary client of the writer.
MainAny == Main \/ SayFlush \/ SayWriteLarge

NextAny == MainAny \/ SinkBreaks

SpecAny == Init /\ [][NextAny]_vars

\* main is sequential code: each step, once enabled, is taken.
FairSpecAny == SpecAny /\ WF_vars(MainAny)

\* ---------------------------------------------------------------- claims
\* C3 (as stated): whenever standard output rejected a write, the process
\* exits with a non-zero status, and the bytes of the rejected write are not
\* passed to standard output again.
CE_C3_RejectedWriteExitsNonZero ==
  (pc = "exit" /\ rejected) => (exitCode # 0 /\ ~retried)

\* C6: over a whole run exactly one write call reaches standard output: never
\* more than one at any point, and exactly one once the process has exited.
Thm_C6_ExactlyOneSinkWrite ==
  /\ sinkWrites <= 1
  /\ (pc = "exit" => sinkWrites = 1)

\* C6 witness: say made several writer calls, the process has exited, and one
\* write call reached standard output.
Wit_C6_SeveralCallsOneWrite ==
  /\ pc = "exit"
  /\ sayCalls >= 2
  /\ handed >= 2
  /\ sinkWrites = 1

\* C10: main always terminates, and at termination every byte still held by
\* the BufWriter has been passed to a write on standard output (nothing is
\* left unattempted), on the normal path and on the panic path alike.
Thm_C10_FlushedAtExit ==
  /\ <>(pc = "exit")
  /\ [](pc = "exit" => (buf = tried /\ (sink = "open" => buf = 0)))

\* C10 witness: say returned a write error, unwrap panicked, the writer was
\* dropped while unwinding and its bytes were offered to standard output.
Wit_C10_ErrorPathFlushed ==
  /\ pc = "exit"
  /\ panicking
  /\ exitCode = PANIC_EXIT
  /\ result = "Err"
  /\ buf > 0
  /\ buf = tried

TypeOK ==
  /\ pc \in {"line5", "line6", "line8", "say", "unwrap", "drop", "exit"}
  /\ buf \in Nat /\ tried \in 0..buf
  /\ exitCode \in {-1, 0, PANIC_EXIT}

====
